---------------------------- MODULE Spec2Model ----------------------------
(***************************************************************************)
(* serendipbot: the two discovery pipelines of the repository.             *)
(*                                                                         *)
(*   creative  src/creative_discovery_agent.py   main()                    *)
(*   scoring   src/web_discovery_agent.py        WebDiscoveryAgent         *)
(*                                                                         *)
(* Each pipeline queries web sources, analyses candidate pages, merges the *)
(* result into a JSON document kept in a GitHub repository and writes the  *)
(* document back.  The document store is the GitHub contents API:          *)
(* get_contents returns the content and its blob sha, update_file needs    *)
(* the sha of the blob it replaces, create_file needs the path to be free. *)
(***************************************************************************)
EXTENDS Naturals, Sequences, FiniteSets, Bags, TLC

VARIABLES
    variant,            \* which program runs: "creative" or "scoring"
    pc,                 \* position of the running program
    env,                \* environment variables that are set in this run
    reqIdx,             \* index of the next search request / query
    all_discovered,     \* all_discovered (creative), all_websites (scoring)
    seen_urls,          \* discover_websites' seen_urls (scoring)
    unique_discovered,  \* unique_discovered (creative), new_discoveries (scoring)
    existing,           \* existing_sites / existing_data['discoveries']
    loaded,             \* the load step of this run has been executed
    new_sites,          \* new_sites (creative), truly_new (scoring)
    sha,                \* file.sha fetched by the save step
    store,              \* the persisted document: [exists, doc]
    ops,                \* store calls of this run, with their results
    outcome,            \* how the run ended
    lastReq,            \* the latest search request, while searching: its
                        \* result and the number of candidates it yielded
    written,            \* the document this run wrote: [done, doc]
    startStore,         \* history: the document when the run started
    other,              \* history: what another writer wrote during the run
    prevUrls,           \* history: URLs discovered by the previous run
    prevRun,            \* history: "saved" or "quiet" after an undisturbed run
    apc,                \* analyze_discovered_site: "idle", "call", "returned"
    page,               \* analyze_discovered_site: the url and the page behind it
    site,               \* analyze_discovered_site: what it returned
    lpc,                \* field lengths: "idle", "call", "returned"
    inLen,              \* field lengths: lengths of the texts of a page
    outLen,             \* field lengths: lengths of title and description
    mpc,                \* merge: "idle", "call", "returned"
    merged,             \* merge: existing discoveries and truly_new
    updated_data,       \* merge: the document handed to save_to_github
    wpc,                \* search_web: "idle", "live", "curated", "return",
                        \* "returned"
    wcall,              \* search_web: the query's keyword branch,
                        \* num_results, and the response of the live search
    wresults,           \* search_web: all_results
    wseen,              \* search_web: seen_urls
    wreturn,            \* search_web: what it returned
    current_ua_index,   \* WebDiscoveryAgent: index of the latest User-Agent
    sent                \* history: the latest calls of get_headers, each
                        \* with its caller and the User-Agent returned

\* the pipeline
pvars == << variant, pc, env, reqIdx, all_discovered, seen_urls,
            unique_discovered, existing, loaded, new_sites, sha, store, ops,
            outcome, lastReq, written, startStore, other, prevUrls,
            prevRun >>

\* one call of the page analyzer
avars == << apc, page, site >>

\* the lengths of the fields of one record
lvars == << lpc, inLen, outLen >>

\* the merge of the scoring variant on collections of full size
mvars == << mpc, merged, updated_data >>

\* one call of search_web
wvars == << wpc, wcall, wresults, wseen, wreturn >>

\* the rotation of request headers
hvars == << current_ua_index, sent >>

\* what a step of the pipeline leaves alone
ovars == << avars, lvars, mvars, wvars, hvars >>

vars == << pvars, avars, lvars, mvars, wvars, hvars >>

-----------------------------------------------------------------------------
(* Bounds of the model *)

NumUrls == 2
NumTitles == 2
MaxPerRequest == 1
MaxDiscovered == 2

(* Program constants *)

BingQueries == 4
RssFeeds == 3
NumSearchQueries == 15
MinScore == 6
TopKept == 100

-----------------------------------------------------------------------------
(* Values *)

URLs == 1 .. NumUrls
Titles == 1 .. NumTitles
\* overall_score as computed by analyze_with_ai; 5 is below the threshold
Scores == {5, 6, 7}
NoScore == 0

Variants == {"creative", "scoring"}

\* The fields that may differ between two records of one URL: the title and
\* the other descriptive fields in the creative document, the scores in the
\* scoring document.
TitlesOf(v) == IF v = "creative" THEN Titles ELSE {1}

\* creative_discoveries.json holds title/description/link/category/emoji/tags,
\* ai_discoveries.json holds asdict(WebsiteScore).  url is the link/url field,
\* title stands for the descriptive fields, score is overall_score.
Site(u, t, s) == [url |-> u, title |-> t, score |-> s]

Range(s) == {s[i] : i \in 1 .. Len(s)}

Urls(s) == {s[i].url : i \in 1 .. Len(s)}

SeqsUpTo(S, n) == UNION {[1 .. k -> S] : k \in 0 .. n}

NoDuplicateUrl(s) == \A i, j \in 1 .. Len(s) : s[i].url = s[j].url => i = j

IsSortedDesc(s) == \A i, j \in 1 .. Len(s) : i < j => s[i].score >= s[j].score

\* faulty variant: nothing is cut
Take_All(s, n) == s

Take(s, n) == IF Len(s) <= n THEN s ELSE SubSeq(s, 1, n)


-----------------------------------------------------------------------------
(* Configuration: both main() functions *)

EnvRead(v) ==
    IF v = "creative"
    THEN {"GITHUB_TOKEN", "GITHUB_REPO"}
    ELSE {"OPENAI_API_KEY", "GITHUB_TOKEN", "GITHUB_REPO"}

\* faulty variant: only the storage token is required
ConfigOk_TokenOnly(v, e) == "GITHUB_TOKEN" \in e

\* all([...]) over the variables main() reads
ConfigOk(v, e) == EnvRead(v) \subseteq e

\* creative: 4 Bing queries, Startpage, Searx, 3 feeds, GitHub trending;
\* scoring: one search_web call per entry of search_queries
NumRequests(v) ==
    IF v = "creative" THEN BingQueries + 2 + RssFeeds + 1 ELSE NumSearchQueries

-----------------------------------------------------------------------------
(* Analysis of candidates *)

\* A candidate of a creative source with what analyze_discovered_site made of
\* it: page = 0 is None (fetch failed, status not 200, exception), otherwise
\* the page's title.
Candidates == [url : URLs, page : {0} \cup Titles]

RECURSIVE AnalyzedSites(_)
AnalyzedSites(cands) ==
    IF cands = << >> THEN << >>
    ELSE LET c == Head(cands)
             rest == AnalyzedSites(Tail(cands))
         IN  IF c.page # 0
             THEN << Site(c.url, c.page, NoScore) >> \o rest
             ELSE rest

\* A search_web result with what extract_website_content and analyze_with_ai
\* made of it: title = 0 is the empty title of a failed extraction, after
\* which the page is not scored.
Results ==
    [url : URLs, title : {0}, score : {NoScore}]
        \cup [url : URLs, title : TitlesOf("scoring"), score : Scores]

DistinctUrls(s) == \A i, j \in 1 .. Len(s) : s[i].url = s[j].url => i = j

\* the body of discover_websites' inner loop, over one query's results
RECURSIVE ProcessResults(_, _, _)
ProcessResults(results, seen, acc) ==
    IF results = << >> THEN [seen |-> seen, sites |-> acc]
    ELSE LET r == Head(results)
         IN  IF r.url \in seen
             THEN ProcessResults(Tail(results), seen, acc)
             ELSE IF r.title = 0
             THEN ProcessResults(Tail(results), seen \cup {r.url}, acc)
             ELSE IF r.score >= MinScore
             THEN ProcessResults(Tail(results), seen \cup {r.url},
                                 Append(acc, Site(r.url, r.title, r.score)))
             ELSE ProcessResults(Tail(results), seen \cup {r.url}, acc)

-----------------------------------------------------------------------------
(* Merge *)

\* "Remove duplicates" loop of the creative main()
RECURSIVE RemoveDuplicatesFrom(_, _)
RemoveDuplicatesFrom(sites, seen) ==
    IF sites = << >> THEN << >>
    ELSE IF Head(sites).url \in seen
         THEN RemoveDuplicatesFrom(Tail(sites), seen)
         ELSE << Head(sites) >>
              \o RemoveDuplicatesFrom(Tail(sites), seen \cup {Head(sites).url})

\* faulty variant: the duplicates stay
RemoveDuplicates_Keep(sites) == sites

\* faulty variant: of the records of one url the last one is kept
RECURSIVE RemoveDuplicates_KeepLast(_)
RemoveDuplicates_KeepLast(sites) ==
    IF sites = << >> THEN << >>
    ELSE IF Head(sites).url \in Urls(Tail(sites))
         THEN RemoveDuplicates_KeepLast(Tail(sites))
         ELSE << Head(sites) >> \o RemoveDuplicates_KeepLast(Tail(sites))

RemoveDuplicates(sites) == RemoveDuplicatesFrom(sites, {})

\* sorted(..., key=overall_score, reverse=True): stable, equal scores keep
\* their order.  Before(s, j, i): entry j comes before entry i in the result.
Before(s, j, i) ==
    \/ s[j].score > s[i].score
    \/ s[j].score = s[i].score /\ j < i

SortDesc(s) ==
    LET n == Len(s)
        ranked == {<< Cardinality({j \in 1 .. n : Before(s, j, i)}) + 1, i >> :
                      i \in 1 .. n}
    IN  [k \in 1 .. n |-> s[(CHOOSE p \in ranked : p[1] = k)[2]]]

ExistingUrls(sites) == {sites[i].url : i \in 1 .. Len(sites)}

\* faulty variant: a record is known only if all its fields are
NewSites_ByRecord(discovered, sites) ==
    SelectSeq(discovered, LAMBDA s : s \notin Range(sites))

NewSites(discovered, sites) ==
    SelectSeq(discovered, LAMBDA s : s.url \notin ExistingUrls(sites))

\* faulty variant: the run saves whatever it found
NeedSave_Always(new) == TRUE

\* the run saves only "if new_sites:" / "if truly_new:"
NeedSave(new) == new # << >>

\* faulty variant: the new entries are put in front of the collection
AllSites_NewFirst(v, sites, new) ==
    IF v = "creative"
    THEN new \o sites
    ELSE Take(SortDesc(sites \o new), TopKept)

\* all_sites (creative); all_discoveries after sort and [:100] (scoring)
AllSites(v, sites, new) ==
    IF v = "creative"
    THEN sites \o new
    ELSE Take(SortDesc(sites \o new), TopKept)

-----------------------------------------------------------------------------
(* The document store: GitHub contents API *)

Absent == [exists |-> FALSE, doc |-> << >>]
Stored(d) == [exists |-> TRUE, doc |-> d]

\* the blob sha identifies the content
Sha(d) == d

\* update_file is accepted only against the sha of the stored blob
UpdateAccepted(st, token) == st.exists /\ Sha(st.doc) = token

\* create_file is accepted only where no file exists
CreateAccepted(st) == ~ st.exists

Call(op, res) == << op, res >>

\* a request of the store can always fail in transit
GetResults(st) == {IF st.exists THEN "ok" ELSE "missing", "err"}
UpdateResults(st, token) ==
    {IF UpdateAccepted(st, token) THEN "ok" ELSE "refused", "err"}
CreateResults(st) == {IF CreateAccepted(st) THEN "ok" ELSE "refused", "err"}

\* documents a pipeline of the variant can have written
SiteValues(v) ==
    IF v = "creative"
    THEN {Site(u, t, NoScore) : u \in URLs, t \in TitlesOf(v)}
    ELSE {Site(u, t, s) : u \in URLs, t \in TitlesOf(v),
                          s \in {x \in Scores : x >= MinScore}}

Docs(v) ==
    {d \in SeqsUpTo(SiteValues(v), NumUrls) :
        /\ NoDuplicateUrl(d)
        /\ v = "scoring" => IsSortedDesc(d)}


-----------------------------------------------------------------------------
(* The page analyzer: analyze_discovered_site *)

\* A text is a sequence of words; a word is a string of the vocabulary below,
\* and may itself hold spaces.
MaxWords == 1

ArtWords == {"art", "image", "photo", "visual", "design", "draw", "paint",
             "creative"}
MusicWords == {"music", "audio", "voice", "sound", "sing", "compose"}
GameWords == {"game", "play", "interactive", "fun", "quiz", "adventure"}
WriteWords == {"write", "text", "copy", "content", "article", "blog"}
VideoWords == {"video", "animation", "movie", "film", "motion"}
ChatWords == {"chat", "conversation", "assistant", "bot", "talk"}
ExperimentWords == {"experiment", "research", "demo", "test", "lab"}
HumorWords == {"weird", "funny", "humor", "strange", "quirky"}

FeatureWords == {"generate", "generator", "neural", "deep learning",
                 "open source"}

PlaceholderTitles == {"untitled", "loading..."}

\* what a page that is still loading or checking the browser shows as its
\* title: texts of a title element the analyzer has no test for
InterstitialTitles == {"please wait", "just a moment"}

DefaultDescription == "ai-powered creative tool discovered from web search"

\* the words a page's title and description are written with
Vocabulary ==
    ArtWords \cup MusicWords \cup GameWords \cup WriteWords \cup VideoWords
        \cup ChatWords \cup ExperimentWords \cup HumorWords \cup FeatureWords

\* what the url reads like: some host, or one with github in it
UrlWords == {"ai", "github"}

\* the link texts a source hands over as fallback_title
FallbackTitles == {<< >>, << "chat" >>}

\* the letters of each word of the model, for the substring test of `in`
Spell(w) ==
    CASE w = "art" -> << "a", "r", "t" >>
      [] w = "image" -> << "i", "m", "a", "g", "e" >>
      [] w = "photo" -> << "p", "h", "o", "t", "o" >>
      [] w = "visual" -> << "v", "i", "s", "u", "a", "l" >>
      [] w = "design" -> << "d", "e", "s", "i", "g", "n" >>
      [] w = "draw" -> << "d", "r", "a", "w" >>
      [] w = "paint" -> << "p", "a", "i", "n", "t" >>
      [] w = "creative" -> << "c", "r", "e", "a", "t", "i", "v", "e" >>
      [] w = "music" -> << "m", "u", "s", "i", "c" >>
      [] w = "audio" -> << "a", "u", "d", "i", "o" >>
      [] w = "voice" -> << "v", "o", "i", "c", "e" >>
      [] w = "sound" -> << "s", "o", "u", "n", "d" >>
      [] w = "sing" -> << "s", "i", "n", "g" >>
      [] w = "compose" -> << "c", "o", "m", "p", "o", "s", "e" >>
      [] w = "game" -> << "g", "a", "m", "e" >>
      [] w = "play" -> << "p", "l", "a", "y" >>
      [] w = "interactive" -> << "i", "n", "t", "e", "r", "a", "c", "t", "i", "v", "e" >>
      [] w = "fun" -> << "f", "u", "n" >>
      [] w = "quiz" -> << "q", "u", "i", "z" >>
      [] w = "adventure" -> << "a", "d", "v", "e", "n", "t", "u", "r", "e" >>
      [] w = "write" -> << "w", "r", "i", "t", "e" >>
      [] w = "text" -> << "t", "e", "x", "t" >>
      [] w = "copy" -> << "c", "o", "p", "y" >>
      [] w = "content" -> << "c", "o", "n", "t", "e", "n", "t" >>
      [] w = "article" -> << "a", "r", "t", "i", "c", "l", "e" >>
      [] w = "blog" -> << "b", "l", "o", "g" >>
      [] w = "video" -> << "v", "i", "d", "e", "o" >>
      [] w = "animation" -> << "a", "n", "i", "m", "a", "t", "i", "o", "n" >>
      [] w = "movie" -> << "m", "o", "v", "i", "e" >>
      [] w = "film" -> << "f", "i", "l", "m" >>
      [] w = "motion" -> << "m", "o", "t", "i", "o", "n" >>
      [] w = "chat" -> << "c", "h", "a", "t" >>
      [] w = "conversation" -> << "c", "o", "n", "v", "e", "r", "s", "a", "t", "i", "o", "n" >>
      [] w = "assistant" -> << "a", "s", "s", "i", "s", "t", "a", "n", "t" >>
      [] w = "bot" -> << "b", "o", "t" >>
      [] w = "talk" -> << "t", "a", "l", "k" >>
      [] w = "experiment" -> << "e", "x", "p", "e", "r", "i", "m", "e", "n", "t" >>
      [] w = "research" -> << "r", "e", "s", "e", "a", "r", "c", "h" >>
      [] w = "demo" -> << "d", "e", "m", "o" >>
      [] w = "test" -> << "t", "e", "s", "t" >>
      [] w = "lab" -> << "l", "a", "b" >>
      [] w = "weird" -> << "w", "e", "i", "r", "d" >>
      [] w = "funny" -> << "f", "u", "n", "n", "y" >>
      [] w = "humor" -> << "h", "u", "m", "o", "r" >>
      [] w = "strange" -> << "s", "t", "r", "a", "n", "g", "e" >>
      [] w = "quirky" -> << "q", "u", "i", "r", "k", "y" >>
      [] w = "generate" -> << "g", "e", "n", "e", "r", "a", "t", "e" >>
      [] w = "generator" -> << "g", "e", "n", "e", "r", "a", "t", "o", "r" >>
      [] w = "neural" -> << "n", "e", "u", "r", "a", "l" >>
      [] w = "deep learning" ->
           << "d", "e", "e", "p", " ", "l", "e", "a", "r", "n", "i", "n",
              "g" >>
      [] w = "open source" -> << "o", "p", "e", "n", " ", "s", "o", "u", "r", "c", "e" >>
      [] w = "github" -> << "g", "i", "t", "h", "u", "b" >>
      [] w = "ai" -> << "a", "i" >>
      [] w = "untitled" -> << "u", "n", "t", "i", "t", "l", "e", "d" >>
      [] w = "loading..." -> << "l", "o", "a", "d", "i", "n", "g", ".", ".", "." >>
      [] w = "please wait" -> << "p", "l", "e", "a", "s", "e", " ", "w", "a", "i", "t" >>
      [] w = "just a moment" ->
           << "j", "u", "s", "t", " ", "a", " ", "m", "o", "m", "e", "n",
              "t" >>
      [] w = "ai-powered creative tool discovered from web search" ->
           << "a", "i", "-", "p", "o", "w", "e", "r", "e", "d", " ", "c",
              "r", "e", "a", "t", "i", "v", "e", " ", "t", "o", "o", "l",
              " ", "d", "i", "s", "c", "o", "v", "e", "r", "e", "d", " ",
              "f", "r", "o", "m", " ", "w", "e", "b", " ", "s", "e", "a",
              "r", "c", "h" >>

\* Python's `k in w` on strings
Infix(k, w) ==
    LET a == Spell(k)
        b == Spell(w)
    IN  /\ Len(a) <= Len(b)
        /\ \E i \in 1 .. (Len(b) + 1 - Len(a)) :
              SubSeq(b, i, i + Len(a) - 1) = a

Keywords == Vocabulary \cup {"github"}

Words ==
    Vocabulary \cup PlaceholderTitles \cup InterstitialTitles \cup UrlWords
        \cup {DefaultDescription}

Occurs == {kw \in Keywords \X Words : Infix(kw[1], kw[2])}

\* `word in content_text`
In(k, text) == \E i \in DOMAIN text : << k, text[i] >> \in Occurs

\* any(word in content_text for word in [...])
AnyWord(text, words) == \E k \in words : In(k, text)

Pages ==
    {[status |-> "ok", title |-> t, description |-> d, url |-> u,
      fallback_title |-> f] :
        t \in SeqsUpTo(Vocabulary \cup PlaceholderTitles
                          \cup InterstitialTitles, MaxWords),
        d \in SeqsUpTo(Vocabulary, MaxWords),
        u \in UrlWords, f \in FallbackTitles}
    \cup {[status |-> "fail", title |-> << >>, description |-> << >>,
           url |-> u, fallback_title |-> << >>] : u \in UrlWords}

NoPage ==
    [status |-> "fail", title |-> << >>, description |-> << >>,
     url |-> "ai", fallback_title |-> << >>]

NoSite == [kind |-> "none"]

\* title of the page, else the fallback title, else the host of the url
Title(p) ==
    LET title == IF p.title # << >> THEN p.title ELSE p.fallback_title
    IN  IF title = << >> \/ (Len(title) = 1 /\ title[1] \in PlaceholderTitles)
        THEN IF p.fallback_title # << >> THEN p.fallback_title
             ELSE << p.url >>
        ELSE title

Description(p) ==
    IF p.description # << >> THEN p.description ELSE << DefaultDescription >>

ContentText(p) == Title(p) \o Description(p) \o << p.url >>

\* the if / elif chain on the keyword groups: the branch taken, 0 for none
Branch_ChatBeforeVideo(text) ==
    IF AnyWord(text, ArtWords) THEN 1
    ELSE IF AnyWord(text, MusicWords) THEN 2
    ELSE IF AnyWord(text, GameWords) THEN 3
    ELSE IF AnyWord(text, WriteWords) THEN 4
    ELSE IF AnyWord(text, ChatWords) THEN 6
    ELSE IF AnyWord(text, VideoWords) THEN 5
    ELSE IF AnyWord(text, ExperimentWords) THEN 7
    ELSE IF AnyWord(text, HumorWords) THEN 8
    ELSE 0

Branch(text) ==
    IF AnyWord(text, ArtWords) THEN 1
    ELSE IF AnyWord(text, MusicWords) THEN 2
    ELSE IF AnyWord(text, GameWords) THEN 3
    ELSE IF AnyWord(text, WriteWords) THEN 4
    ELSE IF AnyWord(text, VideoWords) THEN 5
    ELSE IF AnyWord(text, ChatWords) THEN 6
    ELSE IF AnyWord(text, ExperimentWords) THEN 7
    ELSE IF AnyWord(text, HumorWords) THEN 8
    ELSE 0

BranchCategory(b) ==
    CASE b \in {0, 1, 5} -> "creative"
      [] b = 2 -> "audio"
      [] b = 3 -> "games"
      [] b \in {4, 6} -> "ai-tools"
      [] b = 7 -> "experimental"
      [] b = 8 -> "fun"

\* random.choice over the branch's glyphs, named here
BranchEmojis(b) ==
    CASE b = 0 -> {"palette"}
      [] b = 1 -> {"palette", "sparkles", "paintbrush", "masks"}
      [] b = 2 -> {"notes", "microphone", "headphones", "speaker"}
      [] b = 3 -> {"gamepad", "bullseye", "die", "circus tent"}
      [] b = 4 -> {"writing hand", "memo", "speech balloon", "page"}
      [] b = 5 -> {"clapper", "movie camera", "video camera", "film frames"}
      [] b = 6 -> {"robot", "speech balloon", "speaking head",
                   "thought balloon"}
      [] b = 7 -> {"test tube", "alembic", "microscope", "dna"}
      [] b = 8 -> {"grin", "zany", "joy", "party popper"}

BaseTags == << "AI", "Discovered" >>

BranchTags(b) ==
    CASE b = 0 -> << >>
      [] b = 1 -> << "Art", "Creative" >>
      [] b = 2 -> << "Music", "Audio" >>
      [] b = 3 -> << "Game", "Interactive" >>
      [] b = 4 -> << "Writing", "Text" >>
      [] b = 5 -> << "Video", "Animation" >>
      [] b = 6 -> << "Assistant" >>
      [] b = 7 -> << "Experimental" >>
      [] b = 8 -> << "Humor" >>

FeatureTags(text, url) ==
    (IF In("generate", text) \/ In("generator", text)
     THEN << "Generation" >> ELSE << >>)
    \o (IF In("neural", text) \/ In("deep learning", text)
        THEN << "Neural Networks" >> ELSE << >>)
    \o (IF In("open source", text) \/ In("github", << url >>)
        THEN << "Open Source" >> ELSE << >>)

\* the tags list before "Remove duplicates and limit tags"
CollectedTags(b, text, url) ==
    BaseTags \o BranchTags(b) \o FeatureTags(text, url)

MaxTags == 4

\* faulty variant: the tags are not limited
KeptTags_All(tags) == {SetToBag(Range(tags))}

\* list(set(tags))[:4]: a set iterates in an order that the hashes of its
\* strings decide, and these change from one process to the next, so the
\* list is the distinct tags in any order, and its first MaxTags are kept:
\* any MaxTags of the distinct tags.  The tags of a record are a bag: how
\* often each tag is in the list, the order of the list left aside.
KeptTags(tags) ==
    LET distinct == Range(tags)
        n == IF Cardinality(distinct) > MaxTags THEN MaxTags
             ELSE Cardinality(distinct)
    IN  {SetToBag(k) : k \in {x \in SUBSET distinct : Cardinality(x) = n}}

-----------------------------------------------------------------------------
(* The page analyzer: lengths of title and description *)

\* A text is seen here by its length alone, counted after strip() and the
\* collapse of whitespace; 0 is the empty text or an element that is missing.
TitleLimit == 100
DescriptionLimit == 200

\* lengths taken into account: up to LengthMargin, and LengthMargin around
\* a limit
LengthMargin == 1

Lengths(limit) ==
    (0 .. LengthMargin) \cup ((limit - LengthMargin) .. (limit + LengthMargin))

Min(a, b) == IF a <= b THEN a ELSE b

\* s[:n]
Cut(len, n) == Min(len, n)

\* the title element: missing, or a text, which may be a placeholder
TitleElements ==
    {[present |-> FALSE, len |-> 0, placeholder |-> FALSE]}
        \cup {[present |-> TRUE, len |-> n, placeholder |-> FALSE] :
                 n \in Lengths(TitleLimit)}
        \cup {[present |-> TRUE, len |-> Len(Spell(w)), placeholder |-> TRUE] :
                 w \in PlaceholderTitles}

\* title element, fallback title, host of the url, and the three places a
\* description is looked for
LengthInputs ==
    [title : TitleElements,
     fallback_title : Lengths(TitleLimit),
     netloc : Lengths(TitleLimit) \ {0},
     meta : Lengths(DescriptionLimit),
     og : Lengths(DescriptionLimit),
     first_p : Lengths(DescriptionLimit)]

NoInput ==
    [title |-> [present |-> FALSE, len |-> 0, placeholder |-> FALSE],
     fallback_title |-> 0, netloc |-> 1, meta |-> 0, og |-> 0, first_p |-> 0]

NoLengths == [title |-> 0, description |-> 0]

\* length of the record's title
TitleLength(in) ==
    LET raw == IF in.title.present THEN in.title.len ELSE in.fallback_title
        title == Cut(raw, TitleLimit)
    IN  IF title = 0 \/ (in.title.present /\ in.title.placeholder)
        THEN IF in.fallback_title # 0 THEN in.fallback_title ELSE in.netloc
        ELSE title

\* length of the record's description
DescriptionLength(in) ==
    LET meta == in.meta
        og == IF meta = 0 THEN in.og ELSE meta
        description == IF og = 0 THEN Cut(in.first_p, DescriptionLimit) ELSE og
    IN  IF description # 0 THEN Cut(description, DescriptionLimit)
        ELSE Len(Spell(DefaultDescription))

-----------------------------------------------------------------------------
(* The merge of the scoring variant: run_daily_discovery after the filter *)

\* sizes of the stored collection taken into account: up to SizeMargin, and
\* from TopKept - SizeMargin to TopKept
SizeMargin == 2

\* at most MaxNew new discoveries in a run
MaxNew == 3

Sizes == (0 .. SizeMargin) \cup ((TopKept - SizeMargin) .. TopKept)

\* a collection as the pipeline leaves it: n entries ordered by score, the
\* first hi of them with the higher score
Collection(n, hi) ==
    [i \in 1 .. n |-> Site(i, 1, IF i <= hi THEN MinScore + 1 ELSE MinScore)]

ExistingCollections ==
    {Collection(n, hi) : n \in Sizes, hi \in {0, 1, TopKept - 1}}

\* truly_new: sites not in the collection, in the order discover_websites
\* returns them
TrulyNew(n) ==
    {d \in SeqsUpTo([url : (n + 1) .. (n + MaxNew), title : {1},
                     score : {MinScore, MinScore + 1}], MaxNew) :
        d # << >> /\ NoDuplicateUrl(d) /\ IsSortedDesc(d)}

Merges ==
    {[existing |-> e, truly_new |-> d] :
        e \in ExistingCollections, d \in TrulyNew(TopKept)}

NoMerge == [existing |-> << >>, truly_new |-> << >>]

\* updated_data, without its time stamp
UpdatedData(all_discoveries) ==
    [discoveries |-> all_discoveries,
     total_discoveries |-> Len(all_discoveries)]

NoData == UpdatedData(<< >>)

-----------------------------------------------------------------------------
(* search_web of the scoring variant *)

\* the curated sites, by their position in quality_ai_sites
NumCurated == 20
QualityAiSites == [i \in 1 .. NumCurated |-> i]

LiveLimit == 3          \* count < 3
DivLimit == 10          \* find_all(...)[:10]
EnoughResults == 5      \* len(all_results) < 5
RelevantLimit == 6      \* relevant_sites[:6]
FillLimit == 8          \* len(all_results) < 8

\* the branch a query takes in the if / elif chain on its words
QueryBranches == {"art", "coding", "writing", "music", "general"}

\* relevant_sites: the curated sites whose snippet holds one of the branch's
\* terms, in the order of quality_ai_sites
RelevantSites(branch) ==
    CASE branch = "art" -> << 4, 5, 9, 16, 17, 19, 20 >>
      [] branch = "coding" -> << >>
      [] branch = "writing" -> << 4, 11, 12, 13, 14, 18 >>
      [] branch = "music" -> << 15, 18, 19 >>
      [] branch = "general" -> Take(QualityAiSites, 8)

\* at most MaxDivs result blocks in a response
MaxDivs == 4

\* what a result block links to: 0 for none (no anchor, no href, or not an
\* http url), a curated site, or a site outside the curated list
LinkValues == {0, 4, 15, NumCurated + 1, NumCurated + 2}

\* response of the live search: status "ok"; "status" for a response other
\* than 200; "error" for an exception, raised by the request or after the
\* result blocks listed were handled
Responses ==
    {[status |-> st, divs |-> d] :
        st \in {"ok", "error"}, d \in SeqsUpTo(LinkValues, MaxDivs)}
    \cup {[status |-> "status", divs |-> << >>]}

NumResultsValues == {0, 3, 5, 15}

Calls == [branch : QueryBranches, num_results : NumResultsValues,
          response : Responses]

NoCall ==
    [branch |-> "general", num_results |-> 0,
     response |-> [status |-> "status", divs |-> << >>]]

\* the loop over the result blocks: all_results and seen_urls after it
RECURSIVE LiveResults(_, _, _)
LiveResults(divs, results, seen) ==
    IF divs = << >> THEN [results |-> results, seen |-> seen]
    ELSE LET url == Head(divs)
         IN  IF url # 0 /\ Len(results) < LiveLimit /\ url \notin seen
             THEN LiveResults(Tail(divs), Append(results, url),
                              seen \cup {url})
             ELSE LiveResults(Tail(divs), results, seen)

\* a length all_results never reaches
NoLimit == LiveLimit + NumCurated + 1

\* "for site in ...: if site['url'] not in seen_urls", while the list is
\* shorter than limit
RECURSIVE AddSites(_, _, _, _)
AddSites(sites, results, seen, limit) ==
    IF sites = << >> THEN [results |-> results, seen |-> seen]
    ELSE LET url == Head(sites)
         IN  IF url \notin seen /\ Len(results) < limit
             THEN AddSites(Tail(sites), Append(results, url),
                           seen \cup {url}, limit)
             ELSE AddSites(Tail(sites), results, seen, limit)

\* faulty variant: the general sites are never added
NeedsMore_Never(results) == FALSE

\* "if len(all_results) < 5"
NeedsMore(results) == Len(results) < EnoughResults

\* the curated fill
CuratedResults(branch, results, seen) ==
    IF ~ NeedsMore(results) THEN [results |-> results, seen |-> seen]
    ELSE LET r == AddSites(Take(RelevantSites(branch), RelevantLimit),
                           results, seen, NoLimit)
         IN  IF NeedsMore(r.results)
             THEN AddSites(QualityAiSites, r.results, r.seen, FillLimit)
             ELSE r

-----------------------------------------------------------------------------
(* Request headers of the scoring variant: get_headers *)

\* self.user_agents, each named by its browser and platform
UserAgents ==
    << "Chrome/120 Windows", "Chrome/120 Macintosh", "Chrome/120 Linux",
       "Firefox/121 Windows", "Firefox/121 Macintosh" >>

PoolSize == Len(UserAgents)

\* the calls of get_headers kept in the history
HistoryLen == 5

\* who calls get_headers
Callers == {"search_web", "extract_website_content"}

\* faulty variant: the index is not advanced
NextIndex_Stay(i) == i

\* (self.current_ua_index + 1) % len(self.user_agents)
NextIndex(i) == (i + 1) % PoolSize

\* self.user_agents[i], i counted from 0
UserAgent(i) == UserAgents[i + 1]

\* the last n elements of s
Latest(s, n) == IF Len(s) <= n THEN s ELSE SubSeq(s, Len(s) - n + 1, Len(s))

-----------------------------------------------------------------------------
(* Run state *)

\* no search request made, or the search is over
NoRequest == [res |-> "none", yielded |-> 0]

NotWritten == [done |-> FALSE, doc |-> << >>]
NoOther == [done |-> FALSE, doc |-> << >>]

Failed(res) == res # "ok"

\* no store call of the run failed in transit
NoTransitError == \A i \in 1 .. Len(ops) : ops[i][2] # "err"

\* the run ended normally, nobody else wrote, no store call failed in transit
Clean ==
    /\ pc = "done"
    /\ outcome \in {"saved", "no_new", "nothing_discovered"}
    /\ ~ other.done
    /\ NoTransitError

\* the pipeline before a run, for variant v and stored document st
Idle(v, st) ==
    /\ variant = v
    /\ pc = "idle"
    /\ env = {}
    /\ reqIdx = 1
    /\ all_discovered = << >>
    /\ seen_urls = {}
    /\ unique_discovered = << >>
    /\ existing = << >>
    /\ loaded = FALSE
    /\ new_sites = << >>
    /\ sha = << >>
    /\ store = st
    /\ ops = << >>
    /\ outcome = "none"
    /\ lastReq = NoRequest
    /\ written = NotWritten
    /\ startStore = st
    /\ other = NoOther
    /\ prevUrls = {}
    /\ prevRun = "none"

Init ==
    /\ \E v \in Variants :
          \E st \in {Absent} \cup {Stored(d) : d \in Docs(v)} : Idle(v, st)
    /\ apc = "idle"
    /\ page = NoPage
    /\ site = NoSite
    /\ lpc = "idle"
    /\ inLen = NoInput
    /\ outLen = NoLengths
    /\ mpc = "idle"
    /\ merged = NoMerge
    /\ updated_data = NoData
    /\ wpc = "idle"
    /\ wcall = NoCall
    /\ wresults = << >>
    /\ wseen = {}
    /\ wreturn = << >>
    /\ current_ua_index = 0
    /\ sent = << >>

-----------------------------------------------------------------------------
(* Steps of a run *)

\* faulty variant: both pipelines load the collection before they search
AfterConfig_LoadFirst(v, e) == IF ~ ConfigOk(v, e) THEN "done" ELSE "load"

\* where main() goes after reading the environment
AfterConfig(v, e) ==
    IF ~ ConfigOk(v, e) THEN "done"
    ELSE IF v = "creative" THEN "search" ELSE "load"

\* main(): read the environment, return on a missing variable, otherwise
\* start the pipeline (the scoring variant with run_daily_discovery)
Main ==
    /\ pc \in {"idle", "done"}
    /\ \E e \in SUBSET EnvRead(variant) :
          /\ env' = e
          /\ pc' = AfterConfig(variant, e)
          /\ outcome' = IF ConfigOk(variant, e) THEN "running" ELSE "missing_config"
    /\ reqIdx' = 1
    /\ all_discovered' = << >>
    /\ seen_urls' = {}
    /\ unique_discovered' = << >>
    /\ existing' = << >>
    /\ loaded' = FALSE
    /\ new_sites' = << >>
    /\ sha' = << >>
    /\ ops' = << >>
    /\ lastReq' = NoRequest
    /\ written' = NotWritten
    /\ startStore' = store
    /\ other' = NoOther
    /\ prevUrls' = IF Clean THEN Urls(unique_discovered) ELSE {}
    /\ prevRun' = IF ~ Clean THEN "none"
                  ELSE IF written.done THEN "saved" ELSE "quiet"
    /\ UNCHANGED << variant, store >>
    /\ UNCHANGED ovars

\* faulty variant: an exception of a request ends the run
NextAfterRequest_Abort(v, i, res) ==
    IF res = "error" THEN "done"
    ELSE IF i < NumRequests(v) THEN "search"
    ELSE IF v = "creative" THEN "dedup" ELSE "sorted"

\* where the search loop goes after request i ended with res
NextAfterRequest(v, i, res) ==
    IF i < NumRequests(v) THEN "search"
    ELSE IF v = "creative" THEN "dedup" ELSE "sorted"

\* What a request yields: nothing after an exception, nothing when the status
\* is not 200, otherwise what the response lists.
Contribution(res, found) == IF Failed(res) THEN << >> ELSE found

Request(res, found) == [res |-> res, yielded |-> Len(Contribution(res, found))]

\* search_web: what the live search yields, then curated sites, which are
\* added after every live search since it keeps at most 3 results
SearchWeb(res, live, curated) == Contribution(res, live) \o curated

\* One request of a creative source (a Bing query, Startpage, Searx, a feed,
\* GitHub trending) with the analysis of each candidate it yields.  res is
\* "error" for an exception (transport, timeout, parse), "status" for a
\* response other than 200; cands is what the source lists.
SearchRequest ==
    /\ pc = "search"
    /\ variant = "creative"
    /\ \E res \in {"ok", "error", "status"} :
       \E cands \in SeqsUpTo(Candidates, MaxPerRequest) :
          /\ Len(all_discovered) + Len(AnalyzedSites(cands)) <= MaxDiscovered
          /\ all_discovered' =
                all_discovered \o AnalyzedSites(Contribution(res, cands))
          /\ lastReq' = Request(res, cands)
          /\ pc' = NextAfterRequest(variant, reqIdx, res)
    /\ reqIdx' = reqIdx + 1
    /\ UNCHANGED << variant, env, seen_urls, unique_discovered, existing,
                    loaded, new_sites, sha, store, ops, outcome, written,
                    startStore, other, prevUrls, prevRun >>
    /\ UNCHANGED ovars

\* One query of discover_websites: search_web (the live request, which may
\* fail, then curated sites; the results have distinct URLs), then extraction
\* and scoring of every result not seen before.  Live and curated results
\* together are at most MaxPerRequest.
SearchQuery ==
    /\ pc = "search"
    /\ variant = "scoring"
    /\ \E res \in {"ok", "error", "status"} :
       \E live \in SeqsUpTo(Results, MaxPerRequest) :
       \E curated \in SeqsUpTo(Results, MaxPerRequest - Len(live)) :
          LET results == SearchWeb(res, live, curated)
              p == ProcessResults(results, seen_urls, all_discovered)
          IN  /\ DistinctUrls(live \o curated)
              /\ Len(p.sites) <= MaxDiscovered
              /\ all_discovered' = p.sites
              /\ seen_urls' = p.seen
              /\ lastReq' = Request(res, live)
              /\ pc' = NextAfterRequest(variant, reqIdx, res)
    /\ reqIdx' = reqIdx + 1
    /\ UNCHANGED << variant, env, unique_discovered, existing, loaded,
                    new_sites, sha, store, ops, outcome, written, startStore,
                    other, prevUrls, prevRun >>
    /\ UNCHANGED ovars

\* faulty variant: no return when nothing was discovered
RemoveDuplicateSites_NoReturn ==
    /\ pc = "dedup"
    /\ unique_discovered' = RemoveDuplicates(all_discovered)
    /\ pc' = "load"
    /\ lastReq' = NoRequest
    /\ UNCHANGED << variant, env, reqIdx, all_discovered, seen_urls, existing,
                    loaded, new_sites, sha, store, ops, outcome, written,
                    startStore, other, prevUrls, prevRun >>
    /\ UNCHANGED ovars

\* creative main(): remove duplicates, return when nothing was discovered
RemoveDuplicateSites ==
    /\ pc = "dedup"
    /\ unique_discovered' = RemoveDuplicates(all_discovered)
    /\ IF unique_discovered' = << >>
       THEN pc' = "done" /\ outcome' = "nothing_discovered"
       ELSE pc' = "load" /\ outcome' = outcome
    /\ lastReq' = NoRequest
    /\ UNCHANGED << variant, env, reqIdx, all_discovered, seen_urls, existing,
                    loaded, new_sites, sha, store, ops, written, startStore, other, prevUrls,
                    prevRun >>
    /\ UNCHANGED ovars

\* discover_websites returns its list sorted by overall_score; its locals
\* all_websites and seen_urls end with it
ReturnSorted ==
    /\ pc = "sorted"
    /\ unique_discovered' = SortDesc(all_discovered)
    /\ all_discovered' = << >>
    /\ seen_urls' = {}
    /\ pc' = "filter"
    /\ lastReq' = NoRequest
    /\ UNCHANGED << variant, env, reqIdx, existing,
                    loaded, new_sites, sha, store, ops, outcome, written, startStore, other,
                    prevUrls, prevRun >>
    /\ UNCHANGED ovars

\* faulty variant: the load never reads what is stored
LoadedSites_Empty(st, res) == << >>

\* what the load step yields: any failure gives the empty collection
LoadedSites(st, res) == IF res = "ok" THEN st.doc ELSE << >>

\* "Load existing data" / load_existing_data
LoadExisting ==
    /\ pc = "load"
    /\ \E res \in GetResults(store) :
          /\ existing' = LoadedSites(store, res)
          /\ ops' = Append(ops, Call("get", res))
    /\ loaded' = TRUE
    /\ pc' = IF variant = "creative" THEN "filter" ELSE "search"
    /\ UNCHANGED << variant, env, reqIdx, all_discovered, seen_urls,
                    unique_discovered, new_sites, sha, store, outcome, lastReq, written, startStore, other,
                    prevUrls, prevRun >>
    /\ UNCHANGED ovars

\* new_sites / truly_new, and the branch on it
FilterNew ==
    /\ pc = "filter"
    /\ new_sites' = NewSites(unique_discovered, existing)
    /\ IF NeedSave(new_sites')
       THEN pc' = "save_get" /\ outcome' = outcome
       ELSE pc' = "done" /\ outcome' = "no_new"
    /\ UNCHANGED << variant, env, reqIdx, all_discovered, seen_urls,
                    unique_discovered, existing, loaded, sha, store, ops,
                    lastReq, written, startStore,
                    other, prevUrls, prevRun >>
    /\ UNCHANGED ovars

\* faulty variant: the update is tried whatever get_contents said
WriteAfterGet_Update(res) == "save_update"

\* the write that follows the save step's get_contents
WriteAfterGet(res) == IF res = "ok" THEN "save_update" ELSE "save_create"

\* the save step's own get_contents, whose sha the update uses
SaveGetContents ==
    /\ pc = "save_get"
    /\ \E res \in GetResults(store) :
          /\ ops' = Append(ops, Call("get", res))
          /\ sha' = IF res = "ok" THEN Sha(store.doc) ELSE sha
          /\ pc' = WriteAfterGet(res)
    /\ UNCHANGED << variant, env, reqIdx, all_discovered, seen_urls,
                    unique_discovered, existing, loaded, new_sites, store,
                    outcome, lastReq, written,
                    startStore, other, prevUrls, prevRun >>
    /\ UNCHANGED ovars

\* update_file; any exception leads to the except branch, create_file
SaveUpdateFile ==
    /\ pc = "save_update"
    /\ \E res \in UpdateResults(store, sha) :
          /\ ops' = Append(ops, Call("update", res))
          /\ IF res = "ok"
             THEN /\ store' = Stored(AllSites(variant, existing, new_sites))
                  /\ written' = [done |-> TRUE, doc |-> store'.doc]
                  /\ pc' = "done"
                  /\ outcome' = "saved"
             ELSE /\ pc' = "save_create"
                  /\ UNCHANGED << store, written, outcome >>
    /\ UNCHANGED << variant, env, reqIdx, all_discovered, seen_urls,
                    unique_discovered, existing, loaded, new_sites, sha,
                    lastReq, startStore, other,
                    prevUrls, prevRun >>
    /\ UNCHANGED ovars

\* how a run ends when create_file raises: the creative main() has no handler,
\* save_to_github prints the error
SaveFailure(v) == IF v = "creative" THEN "crashed" ELSE "save_failed"

\* create_file
SaveCreateFile ==
    /\ pc = "save_create"
    /\ \E res \in CreateResults(store) :
          /\ ops' = Append(ops, Call("create", res))
          /\ IF res = "ok"
             THEN /\ store' = Stored(AllSites(variant, existing, new_sites))
                  /\ written' = [done |-> TRUE, doc |-> store'.doc]
                  /\ outcome' = "saved"
             ELSE /\ outcome' = SaveFailure(variant)
                  /\ UNCHANGED << store, written >>
    /\ pc' = "done"
    /\ UNCHANGED << variant, env, reqIdx, all_discovered, seen_urls,
                    unique_discovered, existing, loaded, new_sites, sha,
                    lastReq, startStore, other,
                    prevUrls, prevRun >>
    /\ UNCHANGED ovars

\* what another run of the same pipeline commits on top of document st
OtherDocs(v, st) ==
    {AllSites(v, st.doc, new) : new \in
        {n \in Docs(v) : n # << >> /\ Urls(n) \cap Urls(st.doc) = {}}}

\* Another writer of the same document, a second run of the pipeline, commits
\* between this run's load and the end of its save.  The run reads the store
\* again only in its save step, so a commit made earlier in the run is taken
\* when the save step begins.
OtherWriter ==
    /\ loaded
    /\ pc \in {"save_get", "save_update", "save_create"}
    /\ ~ other.done
    /\ \E d \in OtherDocs(variant, store) :
          /\ store' = Stored(d)
          /\ other' = [done |-> TRUE, doc |-> d]
    /\ UNCHANGED << variant, pc, env, reqIdx, all_discovered, seen_urls,
                    unique_discovered, existing, loaded, new_sites, sha, ops,
                    outcome, lastReq, written,
                    startStore, prevUrls, prevRun >>
    /\ UNCHANGED ovars

\* analyze_discovered_site(url, fallback_title)
AnalyzeDiscoveredSite ==
    /\ apc = "call"
    /\ apc' = "returned"
    /\ IF page.status # "ok"
       THEN site' = NoSite
       ELSE LET text == ContentText(page)
                b == Branch(text)
                tags == CollectedTags(b, text, page.url)
            IN  \E e \in BranchEmojis(b), k \in KeptTags(tags) :
                    site' = [kind |-> "site",
                             title |-> Title(page),
                             description |-> Description(page),
                             link |-> page.url,
                             category |-> BranchCategory(b),
                             emoji |-> e,
                             tags |-> k]
    /\ UNCHANGED << page, pvars, lvars, mvars, wvars, hvars >>

Next ==
    \/ Main
    \/ SearchRequest
    \/ SearchQuery
    \/ RemoveDuplicateSites
    \/ ReturnSorted
    \/ LoadExisting
    \/ FilterNew
    \/ SaveGetContents
    \/ SaveUpdateFile
    \/ SaveCreateFile
    \/ OtherWriter

Spec == Init /\ [][Next]_vars

\* One call of the page analyzer on each page of Pages.
AnalyzeInit ==
    /\ Idle("creative", Absent)
    /\ apc = "call"
    /\ page \in Pages
    /\ site = NoSite
    /\ lpc = "idle"
    /\ inLen = NoInput
    /\ outLen = NoLengths
    /\ mpc = "idle"
    /\ merged = NoMerge
    /\ updated_data = NoData
    /\ wpc = "idle"
    /\ wcall = NoCall
    /\ wresults = << >>
    /\ wseen = {}
    /\ wreturn = << >>
    /\ current_ua_index = 0
    /\ sent = << >>

AnalyzeNext == AnalyzeDiscoveredSite

SpecAnalyze == AnalyzeInit /\ [][AnalyzeNext]_vars

\* analyze_discovered_site on a page that was fetched, by lengths
TitleAndDescription ==
    /\ lpc = "call"
    /\ lpc' = "returned"
    /\ outLen' = [title |-> TitleLength(inLen),
                  description |-> DescriptionLength(inLen)]
    /\ UNCHANGED << inLen, pvars, avars, mvars, wvars, hvars >>

\* One call of the page analyzer on each combination of lengths.
LengthsInit ==
    /\ Idle("creative", Absent)
    /\ apc = "idle"
    /\ page = NoPage
    /\ site = NoSite
    /\ lpc = "call"
    /\ inLen \in LengthInputs
    /\ outLen = NoLengths
    /\ mpc = "idle"
    /\ merged = NoMerge
    /\ updated_data = NoData
    /\ wpc = "idle"
    /\ wcall = NoCall
    /\ wresults = << >>
    /\ wseen = {}
    /\ wreturn = << >>
    /\ current_ua_index = 0
    /\ sent = << >>

LengthsNext == TitleAndDescription

SpecLengths == LengthsInit /\ [][LengthsNext]_vars

\* run_daily_discovery from "if truly_new:" to the call of save_to_github
MergeDiscoveries ==
    /\ mpc = "call"
    /\ mpc' = "returned"
    /\ updated_data' =
          UpdatedData(AllSites("scoring", merged.existing, merged.truly_new))
    /\ UNCHANGED << merged, pvars, avars, lvars, wvars, hvars >>

\* One merge for each stored collection and each batch of new discoveries.
MergeInit ==
    /\ Idle("scoring", Absent)
    /\ apc = "idle"
    /\ page = NoPage
    /\ site = NoSite
    /\ lpc = "idle"
    /\ inLen = NoInput
    /\ outLen = NoLengths
    /\ mpc = "call"
    /\ merged \in Merges
    /\ updated_data = NoData
    /\ wpc = "idle"
    /\ wcall = NoCall
    /\ wresults = << >>
    /\ wseen = {}
    /\ wreturn = << >>
    /\ current_ua_index = 0
    /\ sent = << >>

MergeNext == MergeDiscoveries

SpecMerge == MergeInit /\ [][MergeNext]_vars

\* search_web: the live search
LiveSearch ==
    /\ wpc = "live"
    /\ LET r == IF wcall.response.status = "status"
                THEN [results |-> wresults, seen |-> wseen]
                ELSE LiveResults(Take(wcall.response.divs, DivLimit),
                                 wresults, wseen)
       IN  wresults' = r.results /\ wseen' = r.seen
    /\ wpc' = "curated"
    /\ UNCHANGED << wcall, wreturn, pvars, avars, lvars, mvars, hvars >>

\* search_web: the curated sites
CuratedFill ==
    /\ wpc = "curated"
    /\ LET r == CuratedResults(wcall.branch, wresults, wseen)
       IN  wresults' = r.results /\ wseen' = r.seen
    /\ wpc' = "return"
    /\ UNCHANGED << wcall, wreturn, pvars, avars, lvars, mvars, hvars >>

\* search_web: return all_results[:num_results]
ReturnResults ==
    /\ wpc = "return"
    /\ wreturn' = Take(wresults, wcall.num_results)
    /\ wpc' = "returned"
    /\ UNCHANGED << wcall, wresults, wseen, pvars, avars, lvars, mvars,
                    hvars >>

\* One call of search_web for each query branch, num_results and response.
SearchWebInit ==
    /\ Idle("scoring", Absent)
    /\ apc = "idle"
    /\ page = NoPage
    /\ site = NoSite
    /\ lpc = "idle"
    /\ inLen = NoInput
    /\ outLen = NoLengths
    /\ mpc = "idle"
    /\ merged = NoMerge
    /\ updated_data = NoData
    /\ wpc = "live"
    /\ wcall \in Calls
    /\ wresults = << >>
    /\ wseen = {}
    /\ wreturn = << >>
    /\ current_ua_index = 0
    /\ sent = << >>

SearchWebNext == LiveSearch \/ CuratedFill \/ ReturnResults

SpecSearchWeb == SearchWebInit /\ [][SearchWebNext]_vars

\* WebDiscoveryAgent.__init__: a new agent starts at index 0
NewAgent ==
    /\ current_ua_index' = 0
    /\ sent' = << >>
    /\ UNCHANGED << pvars, avars, lvars, mvars, wvars >>

\* get_headers, called by search_web or by extract_website_content
GetHeaders ==
    /\ \E by \in Callers :
          /\ current_ua_index' = NextIndex(current_ua_index)
          /\ sent' = Latest(Append(sent,
                                   [by |-> by,
                                    ua |-> UserAgent(current_ua_index')]),
                            HistoryLen)
    /\ UNCHANGED << pvars, avars, lvars, mvars, wvars >>

\* An agent and its calls of get_headers, in any order of the two callers.
HeadersInit ==
    /\ Idle("scoring", Absent)
    /\ apc = "idle"
    /\ page = NoPage
    /\ site = NoSite
    /\ lpc = "idle"
    /\ inLen = NoInput
    /\ outLen = NoLengths
    /\ mpc = "idle"
    /\ merged = NoMerge
    /\ updated_data = NoData
    /\ wpc = "idle"
    /\ wcall = NoCall
    /\ wresults = << >>
    /\ wseen = {}
    /\ wreturn = << >>
    /\ current_ua_index = 0
    /\ sent = << >>

HeadersNext == NewAgent \/ GetHeaders

SpecHeaders == HeadersInit /\ [][HeadersNext]_vars


-----------------------------------------------------------------------------
(* Properties of the pipeline *)

\* the store calls of this run that are writes
WriteCalls == {i \in 1 .. Len(ops) : ops[i][1] \in {"update", "create"}}
UpdateCalls == {i \in 1 .. Len(ops) : ops[i][1] = "update"}
CreateCalls == {i \in 1 .. Len(ops) : ops[i][1] = "create"}

\* the run has computed new_sites
Filtered ==
    \/ pc \in {"save_get", "save_update", "save_create"}
    \/ pc = "done" /\ outcome \in {"saved", "no_new", "crashed", "save_failed"}

\* the load of this run read the stored document
LoadedStored == loaded /\ ops # << >> /\ ops[1] = Call("get", "ok")

RECURSIVE IsSubsequence(_, _)
IsSubsequence(a, b) ==
    IF a = << >> THEN TRUE
    ELSE IF b = << >> THEN FALSE
    ELSE IF Head(a) = Head(b) THEN IsSubsequence(Tail(a), Tail(b))
    ELSE IsSubsequence(a, Tail(b))

\* C1: whatever the sources return and whichever analyses and store calls
\* fail, no two entries of the persisted document have the same url.
C1_NoDuplicateUrl == NoDuplicateUrl(store.doc)

\* a run saved after the same URL was discovered twice, next to another entry
C1_Witness ==
    /\ outcome = "saved"
    /\ variant = "creative"
    /\ Len(all_discovered) = 2
    /\ all_discovered[1].url = all_discovered[2].url
    /\ Len(store.doc) = 2

\* C2 (as stated): when another writer committed between this run's load and
\* its save, the save fails, nothing of this run is written and the store is
\* what the other writer left.
C2_ConflictingWriteFails ==
    (pc = "done" /\ LoadedStored /\ other.done /\ NeedSave(new_sites))
        => /\ outcome # "saved"
           /\ ~ written.done
           /\ store = Stored(other.doc)

\* C3 (as stated): the document a run writes is the document stored before
\* the run followed by new_sites, so that every entry stored before the run
\* is in the written document, unmodified and in the same relative order.
C3_AppendOnly ==
    written.done => IsSubsequence(startStore.doc, written.doc)

\* C4: a clean run that discovers what the clean run before it discovered
\* adds nothing: the store, and so its size, is what the first run left.
C4_Idempotent ==
    (Clean /\ prevRun # "none" /\ Urls(unique_discovered) = prevUrls)
        => /\ new_sites = << >>
           /\ ~ written.done
           /\ store = startStore
           /\ Len(store.doc) = Len(startStore.doc)

\* the first run saved, the second one discovered the same and wrote nothing
C4_Witness ==
    /\ Clean
    /\ prevRun = "saved"
    /\ prevUrls # {}
    /\ Urls(unique_discovered) = prevUrls
    /\ outcome = "no_new"

\* C5: when every discovered URL is in the loaded collection, the run issues
\* no update_file and no create_file, leaves the store alone and ends with
\* "no new sites".
C5_SteadyState ==
    (pc = "done" /\ loaded /\ Urls(unique_discovered) \subseteq Urls(existing))
        => /\ new_sites = << >>
           /\ outcome = "no_new"
           /\ WriteCalls = {}
           /\ ~ written.done
           /\ store = startStore

\* a run rediscovered a stored URL and nothing else
C5_Witness ==
    /\ pc = "done"
    /\ loaded
    /\ unique_discovered # << >>
    /\ Urls(unique_discovered) \subseteq Urls(existing)
    /\ outcome = "no_new"

\* C6: when no document exists (and nobody else creates one) and the run
\* discovers a site, the load yields the empty collection, new_sites is all
\* that was discovered, the save issues create_file and never update_file,
\* and the created document is exactly the discovered sites.
C6_FreshCollection ==
    (pc = "done" /\ ~ startStore.exists /\ ~ other.done
                 /\ unique_discovered # << >>)
        => /\ existing = << >>
           /\ new_sites = unique_discovered
           /\ UpdateCalls = {}
           /\ Cardinality(CreateCalls) = 1
           /\ NoTransitError => outcome = "saved"
           /\ outcome = "saved" => store = Stored(unique_discovered)

\* a run created the document with two discovered sites
C6_Witness ==
    /\ pc = "done"
    /\ ~ startStore.exists
    /\ ~ other.done
    /\ outcome = "saved"
    /\ Len(unique_discovered) = 2
    /\ ops[Len(ops)] = Call("create", "ok")

\* C7: new_sites is the sub-sequence of the discovered records whose url is
\* not the url of a loaded entry, whatever their other fields, and a loaded
\* entry is written back with the fields it had.
C7_FirstWriteWins ==
    Filtered
        => /\ IsSubsequence(new_sites, unique_discovered)
           /\ \A i \in 1 .. Len(unique_discovered) :
                 (unique_discovered[i] \in Range(new_sites))
                    <=> (\A j \in 1 .. Len(existing) :
                            existing[j].url # unique_discovered[i].url)
           /\ written.done =>
                 /\ Range(existing) \subseteq Range(written.doc)
                 /\ \A k \in 1 .. Len(written.doc) :
                       written.doc[k].url \in Urls(existing)
                          => written.doc[k] \in Range(existing)

\* a run rediscovered a stored URL with other field values, next to a new one,
\* and saved
C7_Witness ==
    /\ Filtered
    /\ written.done
    /\ \E i \in 1 .. Len(unique_discovered) : \E j \in 1 .. Len(existing) :
          /\ unique_discovered[i].url = existing[j].url
          /\ unique_discovered[i] # existing[j]
          /\ existing[j] \in Range(store.doc)
          /\ unique_discovered[i] \notin Range(store.doc)

\* a search request of the run has just failed
RequestFailed == lastReq.res \in {"error", "status"}

\* the step of a failed request
C8_FailureStep ==
    (pc = "search" /\ reqIdx' # reqIdx /\ lastReq'.res \in {"error", "status"})
        => /\ lastReq'.yielded = 0
           /\ reqIdx' = reqIdx + 1
           /\ pc' = IF reqIdx < NumRequests(variant) THEN "search"
                    ELSE IF variant = "creative" THEN "dedup" ELSE "sorted"
           /\ IsSubsequence(all_discovered, all_discovered')
           /\ variant = "creative" => all_discovered' = all_discovered
           /\ outcome' = outcome

\* C8: a failed request ends neither the search nor the run.  The failed
\* request yields no candidate, its step moves on to the next request (to the
\* merge after the last one) and loses nothing discovered before; in the
\* creative variant it adds nothing, in the scoring variant only what comes
\* of search_web's curated sites.  What the search discovered is what the
\* merge works on, and a save writes all of it.
C8_SourceFailureIsolated ==
    /\ [][C8_FailureStep]_vars
    /\ [](RequestFailed => pc \in {"search", "dedup", "sorted"})
    /\ []((variant = "creative" /\ (pc = "load" \/ Filtered))
            => Urls(unique_discovered) = Urls(all_discovered))
    /\ []((variant = "creative" /\ written.done)
            => Urls(all_discovered) \subseteq Urls(written.doc))

\* a request failed after a site had been discovered, and the search goes on
C8_Witness ==
    /\ pc = "search"
    /\ RequestFailed
    /\ lastReq.res = "error"
    /\ all_discovered # << >>
    /\ reqIdx <= NumRequests(variant)

\* C9: with a required variable missing the run ends at once: no request to a
\* source (and so no page fetch, which only a request's candidates cause), no
\* call of the store, and the store as it was.
C9_MissingConfig ==
    (pc # "idle" /\ ~ (EnvRead(variant) \subseteq env))
        => /\ pc = "done"
           /\ outcome = "missing_config"
           /\ reqIdx = 1
           /\ all_discovered = << >>
           /\ ~ loaded
           /\ ops = << >>
           /\ ~ written.done
           /\ store = startStore

\* the scoring variant started with only the API key missing
C9_Witness ==
    /\ variant = "scoring"
    /\ pc = "done"
    /\ env = {"GITHUB_TOKEN", "GITHUB_REPO"}
    /\ outcome = "missing_config"


Categories ==
    {"creative", "audio", "games", "ai-tools", "experimental", "fun"}

\* category of the earliest group of an ordered list of keyword groups that
\* has a keyword occurring in the text, "creative" when none has
FirstMatch(order, text) ==
    LET m == {g \in DOMAIN order : AnyWord(text, order[g][1])}
    IN  IF m = {} THEN "creative"
        ELSE order[CHOOSE g \in m : \A h \in m : g <= h][2]

\* the order as stated: seven groups, none for video
ClaimedOrder ==
    << << ArtWords, "creative" >>, << MusicWords, "audio" >>,
       << GameWords, "games" >>, << WriteWords, "ai-tools" >>,
       << ChatWords, "ai-tools" >>, << ExperimentWords, "experimental" >>,
       << HumorWords, "fun" >> >>

\* the same order with the video group between the write and chat groups
OrderWithVideo ==
    << << ArtWords, "creative" >>, << MusicWords, "audio" >>,
       << GameWords, "games" >>, << WriteWords, "ai-tools" >>,
       << VideoWords, "creative" >>,
       << ChatWords, "ai-tools" >>, << ExperimentWords, "experimental" >>,
       << HumorWords, "fun" >> >>

\* C10 as stated: the category of every returned record is that of the
\* earliest matching group in the seven-group order art, music, game, write,
\* chat, experiment, humor; creative when no group matches; and always one of
\* the six categories.
C10_ClaimedPriority ==
    site.kind = "site" =>
        /\ site.category = FirstMatch(ClaimedOrder, ContentText(page))
        /\ site.category \in Categories

\* C10: the category of every returned record is that of the earliest group,
\* in the eight-group order art, music, game, write, video, chat, experiment,
\* humor, that has a keyword occurring as a substring of the lower-cased
\* title, description and url; creative when no group matches; and always one
\* of the six categories.
C10_ClassificationPriority ==
    site.kind = "site" =>
        /\ site.category = FirstMatch(OrderWithVideo, ContentText(page))
        /\ site.category \in Categories

\* a page that mentions video and chat, and nothing of the four groups before
\* them, was analyzed and came out creative
C10_Witness ==
    /\ apc = "returned"
    /\ site.kind = "site"
    /\ AnyWord(ContentText(page), VideoWords)
    /\ AnyWord(ContentText(page), ChatWords)
    /\ ~ AnyWord(ContentText(page), ArtWords \cup MusicWords \cup GameWords
                                        \cup WriteWords)
    /\ site.category = "creative"

\* the tags analyze_discovered_site collects for page p, in insertion order
PageTags(p) ==
    CollectedTags(Branch(ContentText(p)), ContentText(p), p.url)

\* C11: every returned record has at most MaxTags tags and no tag twice,
\* whichever keyword group and whichever feature tags the page matched.
C11_TagCap ==
    site.kind = "site" =>
        /\ BagCardinality(site.tags) <= MaxTags
        /\ \A t \in BagToSet(site.tags) : CopiesIn(t, site.tags) = 1

\* a page that matched a two-tag group and two feature tags, six tags in all,
\* came back with four
C11_Witness ==
    /\ apc = "returned"
    /\ site.kind = "site"
    /\ Len(PageTags(page)) = 6
    /\ BagCardinality(site.tags) = MaxTags

\* C17 (as stated): when more than MaxTags tags were collected, the record
\* keeps the first MaxTags of them in insertion order, so that the tags of a
\* record are a function of the page.
C17_FirstTagsKept ==
    site.kind = "site" =>
        BagToSet(site.tags) = Range(Take(PageTags(page), MaxTags))

\* the title the record is to carry when the page's own title is not used
FallbackOrHost(p) ==
    IF p.fallback_title # << >> THEN p.fallback_title ELSE << p.url >>

\* the page has no title element, an empty one, or one that reads as one of
\* the given placeholder strings
NoUsableTitle(p, placeholders) ==
    p.title = << >> \/ (Len(p.title) = 1 /\ p.title[1] \in placeholders)

\* C12 (as stated): a page without a title, or titled "untitled",
\* "loading...", "please wait" or "just a moment", yields a record titled with
\* the fallback title, or with the host of the url when the fallback title is
\* empty; and no record has an empty title.
C12_TitleFallback ==
    site.kind = "site" =>
        /\ site.title # << >>
        /\ NoUsableTitle(page, PlaceholderTitles \cup InterstitialTitles) =>
               site.title = FallbackOrHost(page)

\* C13 (as stated): after an update of the document failed, the run issues
\* no further write, update or create; and a create is issued only in a run
\* that began with no document at the path.
C13_FailedWriteNotRetried ==
    /\ \A i \in UpdateCalls :
          Failed(ops[i][2]) => \A j \in WriteCalls : j <= i
    /\ CreateCalls # {} => ~ startStore.exists

\* the records the analyzer returned for url u in this run's search: each
\* record of all_discovered is what one call of the analyzer returned
Analyses(u) == {i \in DOMAIN all_discovered : all_discovered[i].url = u}

\* the first record analyzed for url u
FirstAnalysis(u) ==
    all_discovered[CHOOSE i \in Analyses(u) : \A j \in Analyses(u) : i <= j]

\* C14 (as stated): within a run the analyzer is invoked at most once for a
\* url, so the analyzed records hold no url twice.
C14_DedupBeforeAnalysis ==
    \A u \in URLs : Cardinality(Analyses(u)) <= 1

\* C14: the creative variant analyzes every candidate as it is surfaced and
\* removes duplicates from the analyzed records afterwards: the deduplicated
\* list holds, for every url analyzed, the first record analyzed for it and
\* no other, in the order of first occurrence.  The scoring variant skips a
\* url seen before: its analyzed records hold no url twice and every url of
\* them is in seen_urls.
C14_DedupAfterAnalysis ==
    /\ (variant = "creative" /\ unique_discovered # << >>) =>
          /\ NoDuplicateUrl(unique_discovered)
          /\ Urls(unique_discovered) = Urls(all_discovered)
          /\ IsSubsequence(unique_discovered, all_discovered)
          /\ \A i \in DOMAIN unique_discovered :
                unique_discovered[i] = FirstAnalysis(unique_discovered[i].url)
    /\ (variant = "scoring" /\ pc \in {"search", "sorted"}) =>
          /\ NoDuplicateUrl(all_discovered)
          /\ Urls(all_discovered) \subseteq seen_urls

\* a creative run analyzed one url twice, with different outcomes, and kept
\* the first record
C14_Witness ==
    /\ variant = "creative"
    /\ Len(all_discovered) = 2
    /\ all_discovered[1].url = all_discovered[2].url
    /\ all_discovered[1].title # all_discovered[2].title
    /\ unique_discovered = << all_discovered[1] >>

IsPrefix(a, b) == Len(a) <= Len(b) /\ SubSeq(b, 1, Len(a)) = a

\* the step commits this run's document
Commits == ~ written.done /\ written'.done

\* C15 (as stated): the list of analyzed records the search hands on is in
\* discovery order, the new entries keep that order, and the document
\* written is the loaded collection followed by the new entries: no step
\* reorders.
C15_DiscoveryOrder ==
    [][/\ pc \in {"dedup", "sorted"} =>
             IsSubsequence(unique_discovered', all_discovered)
       /\ pc = "filter" => IsSubsequence(new_sites', unique_discovered)
       /\ Commits => written'.doc = existing \o new_sites]_vars

\* C15: in the creative variant the records are collected in request order,
\* deduplication and the filter on known urls keep that order, and the
\* document written is the loaded collection followed by the new entries.
\* The scoring variant hands on the same records ordered by score, highest
\* first, and writes a document ordered by score.
C15_OrderKept ==
    [][/\ variant = "creative" =>
             /\ pc = "search" => IsPrefix(all_discovered, all_discovered')
             /\ pc = "dedup" =>
                   IsSubsequence(unique_discovered', all_discovered)
             /\ pc = "filter" => IsSubsequence(new_sites', unique_discovered)
             /\ Commits => written'.doc = existing \o new_sites
       /\ variant = "scoring" =>
             /\ pc = "sorted" =>
                   /\ IsSortedDesc(unique_discovered')
                   /\ Len(unique_discovered') = Len(all_discovered)
                   /\ Range(unique_discovered') = Range(all_discovered)
             /\ pc = "filter" => IsSubsequence(new_sites', unique_discovered)
             /\ Commits => IsSortedDesc(written'.doc)]_vars

\* a creative run analyzed two sites, both new, and wrote them in the order
\* they were analyzed
C15_Witness ==
    /\ variant = "creative"
    /\ written.done
    /\ Len(new_sites) = 2
    /\ new_sites = all_discovered
    /\ written.doc = existing \o new_sites

\* the store calls of this run that fetch the document
GetCalls == {i \in 1 .. Len(ops) : ops[i][1] = "get"}

\* every source has been queried and every candidate analyzed
SearchOver == reqIdx = NumRequests(variant) + 1

\* the document written holds every entry of the batch
WholeBatch == Urls(new_sites) \subseteq Urls(written.doc)

\* C16 (as stated): the collection is fetched exactly once, before any source
\* is queried, and written at most once, after the search; the document
\* written holds the whole batch.
C16_LoadOnceFirst ==
    /\ pc = "search" => Cardinality(GetCalls) = 1
    /\ Cardinality(GetCalls) <= 1
    /\ Cardinality(WriteCalls) <= 1
    /\ WriteCalls # {} => SearchOver
    /\ written.done => WholeBatch

\* C16: a run fetches the collection at most twice, once to load it and once
\* more in the save step to obtain the revision for the write.  The creative
\* variant loads after the search, so all its store calls follow the search;
\* the scoring variant loads before the search and makes every other call
\* after it.  A write is preceded by both fetches, at most one write of a run
\* succeeds, and it holds the whole batch unless the scoring variant's cut to
\* TopKept entries applies.
C16_Lifecycle ==
    /\ Cardinality(GetCalls) <= 2
    /\ variant = "creative" => (ops # << >> => SearchOver)
    /\ variant = "scoring" =>
          /\ pc = "search" => GetCalls = {1} /\ Len(ops) = 1
          /\ Len(ops) > 1 => SearchOver
    /\ \A i \in WriteCalls : i > 2 /\ {1, 2} \subseteq GetCalls
    /\ Cardinality({i \in WriteCalls : ops[i][2] = "ok"}) <= 1
    /\ written.done =>
          \/ WholeBatch
          \/ variant = "scoring" /\ Len(existing) + Len(new_sites) > TopKept

\* a creative run searched, then loaded, then fetched the document again in
\* its save step and updated it
C16_Witness ==
    /\ variant = "creative"
    /\ SearchOver
    /\ written.done
    /\ ops = << Call("get", "ok"), Call("get", "ok"), Call("update", "ok") >>

\* C18 (as stated): every record has a title of at most TitleLimit
\* characters and a description of at most DescriptionLimit characters, also
\* when the title is the fallback title or the host of the url.
C18_FieldLengths ==
    lpc = "returned" =>
        /\ outLen.title <= TitleLimit
        /\ outLen.description <= DescriptionLimit

\* C19: the document the scoring variant hands to the save is ordered by
\* score, highest first, holds at most TopKept entries, and its
\* total_discoveries is the number of its entries.
C19_SortedTop ==
    mpc = "returned" =>
        /\ IsSortedDesc(updated_data.discoveries)
        /\ Len(updated_data.discoveries) <= TopKept
        /\ updated_data.total_discoveries = Len(updated_data.discoveries)

\* a full collection took a new entry of the higher score and lost its last
\* entry
C19_Witness ==
    /\ mpc = "returned"
    /\ Len(merged.existing) = TopKept
    /\ Len(updated_data.discoveries) = TopKept
    /\ updated_data.total_discoveries = TopKept
    /\ \E i \in DOMAIN updated_data.discoveries :
          updated_data.discoveries[i] \in Range(merged.truly_new)
    /\ merged.existing[TopKept] \notin Range(updated_data.discoveries)

\* C20: whatever the live search returned and however it failed, search_web
\* returns results with pairwise distinct urls, at most num_results of them
\* and at least the smaller of EnoughResults and num_results.
C20_SearchWebResults ==
    wpc = "returned" =>
        /\ \A i, j \in DOMAIN wreturn : wreturn[i] = wreturn[j] => i = j
        /\ Len(wreturn) <= wcall.num_results
        /\ Len(wreturn) >= Min(EnoughResults, wcall.num_results)

\* the live search listed a url twice and a curated site among more results
\* than it keeps; the call returned num_results results, curated sites among
\* them
C20_Witness ==
    /\ wpc = "returned"
    /\ wcall.response.status = "ok"
    /\ wcall.response.divs = << 15, 15, NumCurated + 1, NumCurated + 2 >>
    /\ wcall.branch = "music"
    /\ wcall.num_results = EnoughResults
    /\ wreturn = << 15, NumCurated + 1, NumCurated + 2, 18, 19 >>

\* the creative run is past its deduplication and no source yielded a site
NothingDiscovered ==
    /\ variant = "creative"
    /\ SearchOver
    /\ pc # "dedup"
    /\ all_discovered = << >>

\* C21: a creative run in which no source yielded a site ends after the
\* deduplication: it made no store call, neither a read of the document nor
\* a write, and the store is as it was when the run started.
C21_NothingDiscovered ==
    NothingDiscovered =>
        /\ pc = "done"
        /\ outcome = "nothing_discovered"
        /\ ops = << >>
        /\ ~ loaded
        /\ ~ written.done
        /\ store = startStore

\* a creative run over a stored collection ended with nothing discovered
C21_Witness ==
    /\ NothingDiscovered
    /\ pc = "done"
    /\ startStore.exists
    /\ startStore.doc # << >>
    /\ store = startStore

\* C22: the index stays within the pool; of the calls of get_headers, any
\* two less than PoolSize apart returned different User-Agents, so two
\* consecutive calls differ and any PoolSize consecutive calls return
\* PoolSize distinct ones; and the first call of an agent returns the
\* pool's second entry.
C22_RoundRobin ==
    /\ current_ua_index \in 0 .. (PoolSize - 1)
    /\ \A i, j \in DOMAIN sent :
          (i < j /\ j - i < PoolSize) => sent[i].ua # sent[j].ua
    /\ (sent # << >> /\ Len(sent) < HistoryLen) => sent[1].ua = UserAgents[2]
    /\ sent # << >> => sent[Len(sent)].ua = UserAgent(current_ua_index)

\* the index has wrapped around: five calls by both callers, the latest
\* returning the pool's first entry, all five User-Agents different
C22_Witness ==
    /\ Len(sent) = PoolSize
    /\ current_ua_index = 0
    /\ sent[PoolSize].ua = UserAgents[1]
    /\ Cardinality({sent[i].ua : i \in DOMAIN sent}) = PoolSize
    /\ {sent[i].by : i \in DOMAIN sent} = Callers

====
